---- MODULE Spec2Model ----
(***************************************************************************)
(* A model of the pong game of retro_games: the collision map, the two     *)
(* paddles, the ball, the score and the game loop (handle_input, update).  *)
(* Coordinates are those of the source: x is a column, y is a row, and     *)
(* collision_map.map[y][x] is the marker of cell (x, y).                   *)
(***************************************************************************)
EXTENDS Integers, FiniteSets, Sequences, TLC

\* ---- bounds of the model ------------------------------------------------
Rows == 8
Cols == 10
MaxScore == 1
MaxSize == 3
MaxProbe == 6
QRows == 5
QCols == 5

\* ---- program constants ---------------------------------------------------
PaddleHeight == 4
LeftPaddleX == 2

\* CollisionMap.MapEntity
EMPTY == "EMPTY"
PADDLE == "PADDLE"
BALL == "BALL"
BOARDER == "BOARDER"
TOP_WALL == "TOP_WALL"
BOTTOM_WALL == "BOTTOM_WALL"
LEFT_WALL == "LEFT_WALL"
RIGHT_WALL == "RIGHT_WALL"

MapEntity == {EMPTY, PADDLE, BALL, BOARDER, TOP_WALL, BOTTOM_WALL, LEFT_WALL, RIGHT_WALL}

\* Paddle.Direction
UP == -1
DOWN == 1

VARIABLES
    screen,         \* the terminal: [max_y, max_x] as screen.getmaxyx() reports
    collision_map,  \* Game.collision_map: [max_y, max_x, map]
    left_paddle,    \* Pong.left_paddle
    right_paddle,   \* Pong.right_paddle
    ball,           \* Pong.ball
    score,          \* Pong.score
    pc,             \* position of Pong.run: "handle_input", "update", "quit", "error"
    entity,         \* the Collidable handed to a stand-alone check_collision
    result          \* what that check_collision returned

vars == <<screen, collision_map, left_paddle, right_paddle, ball, score, pc, entity, result>>

game_vars == <<screen, collision_map, left_paddle, right_paddle, ball, score, pc>>

\* ---- CollisionMap --------------------------------------------------------

\* CollisionMap.create_collision_map: max_y rows of max_x EMPTY cells
create_collision_map(max_y, max_x) ==
    [r \in 0..(max_y - 1) |-> [c \in 0..(max_x - 1) |-> EMPTY]]

\* the cells the loop of check_collision reads: rows new_y + i, the slice
\* [new_x : new_x + width] of each (a slice is cut to the row's length)
footprint_cells(cm, e) ==
    {<<e.new_y + i, c>> : i \in 0..(e.height - 1),
                          c \in (e.new_x..(e.new_x + e.width - 1)) \cap (0..(cm.max_x - 1))}

check_collision_low_bottom(cm, e) ==
    IF e.new_x < 0 + 1 THEN {LEFT_WALL}
    ELSE IF e.new_x >= cm.max_x + 1 - e.width THEN {RIGHT_WALL}
    ELSE IF e.new_y < 0 + 1 THEN {TOP_WALL}
    ELSE IF e.new_y > cm.max_y - e.height THEN {BOTTOM_WALL}
    ELSE {cm.map[rc[1]][rc[2]] : rc \in footprint_cells(cm, e)}

check_collision_swapped(cm, e) ==
    IF e.new_y < 0 + 1 THEN {TOP_WALL}
    ELSE IF e.new_y >= cm.max_y - e.height THEN {BOTTOM_WALL}
    ELSE IF e.new_x < 0 + 1 THEN {LEFT_WALL}
    ELSE IF e.new_x >= cm.max_x + 1 - e.width THEN {RIGHT_WALL}
    ELSE {cm.map[rc[1]][rc[2]] : rc \in footprint_cells(cm, e)}

\* CollisionMap.check_collision
check_collision(cm, e) ==
    IF e.new_x < 0 + 1 THEN {LEFT_WALL}
    ELSE IF e.new_x >= cm.max_x + 1 - e.width THEN {RIGHT_WALL}
    ELSE IF e.new_y < 0 + 1 THEN {TOP_WALL}
    ELSE IF e.new_y >= cm.max_y - e.height THEN {BOTTOM_WALL}
    ELSE {cm.map[rc[1]][rc[2]] : rc \in footprint_cells(cm, e)}

\* collision_map.map[y][x] = value for every (y, x) of cells
write_cells(map, cells, value) ==
    [r \in DOMAIN map |->
        [c \in DOMAIN map[r] |-> IF <<r, c>> \in cells THEN value ELSE map[r][c]]]

\* ---- Paddle --------------------------------------------------------------

\* Paddle.__init__; new_y is not set before the first move and is never read
\* before Paddle.move assigns it
Paddle(x, scr) ==
    [x |-> x, new_x |-> x, height |-> PaddleHeight, width |-> 1,
     y |-> (scr.max_y - PaddleHeight) \div 2,
     new_y |-> (scr.max_y - PaddleHeight) \div 2]

\* the committed footprint of a paddle
paddle_cells(p) == {<<p.y + i, p.x>> : i \in 0..(p.height - 1)}

\* Paddle.update_map: [cm, paddle] after the commit
Paddle_update_map(cm, p) ==
    LET cleared == write_cells(cm.map, {<<p.y + i, p.x>> : i \in 0..(p.height - 1)}, EMPTY)
        written == write_cells(cleared, {<<p.new_y + i, p.new_x>> : i \in 0..(p.height - 1)}, PADDLE)
    IN  [cm |-> [cm EXCEPT !.map = written], paddle |-> [p EXCEPT !.y = p.new_y]]

Paddle_move_commits_then_raises(cm, p, direction) ==
    LET moved == [p EXCEPT !.new_y = p.y + direction]
        collision == check_collision(cm, moved)
    IN  IF collision \in {{BOTTOM_WALL}, {TOP_WALL}}
        THEN [cm |-> cm, paddle |-> moved, raised |-> FALSE]
        ELSE [cm |-> Paddle_update_map(cm, moved).cm,
              paddle |-> Paddle_update_map(cm, moved).paddle,
              raised |-> collision \notin {{EMPTY, PADDLE}, {EMPTY}}]

Paddle_move_unclamped(cm, p, direction) ==
    LET moved == [p EXCEPT !.new_y = p.y + direction]
        collision == check_collision(cm, moved)
    IN  IF collision \in {{EMPTY, PADDLE}, {EMPTY}, {BOTTOM_WALL}, {TOP_WALL}}
        THEN [cm |-> Paddle_update_map(cm, moved).cm,
              paddle |-> Paddle_update_map(cm, moved).paddle, raised |-> FALSE]
        ELSE [cm |-> cm, paddle |-> moved, raised |-> TRUE]

\* Paddle.move: [cm, paddle, raised]
Paddle_move(cm, p, direction) ==
    LET moved == [p EXCEPT !.new_y = p.y + direction]
        collision == check_collision(cm, moved)
    IN  IF collision \in {{EMPTY, PADDLE}, {EMPTY}}
        THEN [cm |-> Paddle_update_map(cm, moved).cm,
              paddle |-> Paddle_update_map(cm, moved).paddle, raised |-> FALSE]
        ELSE IF collision \in {{BOTTOM_WALL}, {TOP_WALL}}
        THEN [cm |-> cm, paddle |-> moved, raised |-> FALSE]
        ELSE [cm |-> cm, paddle |-> moved, raised |-> TRUE]

\* ---- Score ---------------------------------------------------------------

\* Score.__init__
Score == [player_1_score |-> 0, player_2_score |-> 0]

\* ---- Ball ----------------------------------------------------------------

Ball_reset_map_width(b, scr, dx, dy) ==
    [b EXCEPT !.x = (scr.max_x - 2) \div 2, !.y = scr.max_y \div 2,
              !.width = 1, !.height = 1, !.dx = dx, !.dy = dy]

\* Ball.reset: the ball at the middle of the screen, dx and dy as choice drew them
Ball_reset(b, scr, dx, dy) ==
    [b EXCEPT !.x = scr.max_x \div 2, !.y = scr.max_y \div 2,
              !.width = 1, !.height = 1, !.dx = dx, !.dy = dy]

\* Ball.__init__: GameEntity.__init__ followed by reset; new_x and new_y are
\* not set before the first move and are never read before Ball.move assigns them
Ball(scr, dx, dy) ==
    Ball_reset([x |-> 0, y |-> 0, new_x |-> scr.max_x \div 2, new_y |-> scr.max_y \div 2,
                width |-> 1, height |-> 1, dx |-> dx, dy |-> dy], scr, dx, dy)

Ball_update_map_keeps_old(cm, b) ==
    LET written == write_cells(cm.map, {<<b.new_y, b.new_x>>}, BALL)
    IN  [cm |-> [cm EXCEPT !.map = written],
         ball |-> [b EXCEPT !.x = b.new_x, !.y = b.new_y]]

\* Ball.update_map: [cm, ball] after the commit
Ball_update_map(cm, b) ==
    LET cleared == write_cells(cm.map, {<<b.y, b.x>>}, EMPTY)
        written == write_cells(cleared, {<<b.new_y, b.new_x>>}, BALL)
    IN  [cm |-> [cm EXCEPT !.map = written],
         ball |-> [b EXCEPT !.x = b.new_x, !.y = b.new_y]]

\* Ball.move with three switches: wall_dx makes a wall bounce invert dx as
\* well, loss is what a score takes from the other counter, paddle_dy makes
\* a paddle bounce invert dy in place of dx
Ball_move_with(cm, b, sc, scr, rdx, rdy, wall_dx, loss, paddle_dy) ==
    LET moved == [b EXCEPT !.new_x = b.x + b.dx, !.new_y = b.y + b.dy]
        collision == check_collision(cm, moved)
        emptied == [cm EXCEPT !.map = write_cells(cm.map, {<<moved.y, moved.x>>}, EMPTY)]
    IN  IF collision = {EMPTY}
        THEN [cm |-> Ball_update_map(cm, moved).cm, ball |-> Ball_update_map(cm, moved).ball,
              score |-> sc, raised |-> FALSE]
        ELSE IF collision \in {{BOTTOM_WALL}, {TOP_WALL}}
        THEN [cm |-> cm,
              ball |-> [moved EXCEPT !.dy = moved.dy * (-1),
                                     !.dx = IF wall_dx THEN moved.dx * (-1) ELSE moved.dx],
              score |-> sc, raised |-> FALSE]
        ELSE IF collision = {PADDLE}
        THEN [cm |-> cm,
              ball |-> IF paddle_dy THEN [moved EXCEPT !.dy = moved.dy * (-1)]
                       ELSE [moved EXCEPT !.dx = moved.dx * (-1)],
              score |-> sc, raised |-> FALSE]
        ELSE IF collision = {LEFT_WALL}
        THEN [cm |-> emptied, ball |-> Ball_reset(moved, scr, rdx, rdy),
              score |-> [sc EXCEPT !.player_1_score = sc.player_1_score + 1,
                                   !.player_2_score = sc.player_2_score - loss],
              raised |-> FALSE]
        ELSE IF collision = {RIGHT_WALL}
        THEN [cm |-> emptied, ball |-> Ball_reset(moved, scr, rdx, rdy),
              score |-> [sc EXCEPT !.player_2_score = sc.player_2_score + 1,
                                   !.player_1_score = sc.player_1_score - loss],
              raised |-> FALSE]
        ELSE [cm |-> cm, ball |-> moved, score |-> sc, raised |-> TRUE]

Ball_move_loser_pays(cm, b, sc, scr, rdx, rdy) ==
    Ball_move_with(cm, b, sc, scr, rdx, rdy, FALSE, 1, FALSE)

Ball_move_wall_turns(cm, b, sc, scr, rdx, rdy) ==
    Ball_move_with(cm, b, sc, scr, rdx, rdy, TRUE, 0, FALSE)

Ball_move_paddle_turns_dy(cm, b, sc, scr, rdx, rdy) ==
    Ball_move_with(cm, b, sc, scr, rdx, rdy, FALSE, 0, TRUE)

\* Ball.move: [cm, ball, score, raised]; rdx and rdy are what choice draws
\* should the move reset the ball
Ball_move(cm, b, sc, scr, rdx, rdy) ==
    LET moved == [b EXCEPT !.new_x = b.x + b.dx, !.new_y = b.y + b.dy]
        collision == check_collision(cm, moved)
        emptied == [cm EXCEPT !.map = write_cells(cm.map, {<<moved.y, moved.x>>}, EMPTY)]
    IN  IF collision = {EMPTY}
        THEN [cm |-> Ball_update_map(cm, moved).cm, ball |-> Ball_update_map(cm, moved).ball,
              score |-> sc, raised |-> FALSE]
        ELSE IF collision \in {{BOTTOM_WALL}, {TOP_WALL}}
        THEN [cm |-> cm, ball |-> [moved EXCEPT !.dy = moved.dy * (-1)],
              score |-> sc, raised |-> FALSE]
        ELSE IF collision = {PADDLE}
        THEN [cm |-> cm, ball |-> [moved EXCEPT !.dx = moved.dx * (-1)],
              score |-> sc, raised |-> FALSE]
        ELSE IF collision = {LEFT_WALL}
        THEN [cm |-> emptied, ball |-> Ball_reset(moved, scr, rdx, rdy),
              score |-> [sc EXCEPT !.player_1_score = sc.player_1_score + 1],
              raised |-> FALSE]
        ELSE IF collision = {RIGHT_WALL}
        THEN [cm |-> emptied, ball |-> Ball_reset(moved, scr, rdx, rdy),
              score |-> [sc EXCEPT !.player_2_score = sc.player_2_score + 1],
              raised |-> FALSE]
        ELSE [cm |-> cm, ball |-> moved, score |-> sc, raised |-> TRUE]

\* ---- Pong ----------------------------------------------------------------

\* the keys getch can report: the five bound keys, another key, no key (-1)
Keys == {"w", "s", "i", "k", "q", "other", "none"}

NoEntity == [new_x |-> 0, new_y |-> 0, width |-> 1, height |-> 1]

\* Pong.__init__ on a terminal of rows x cols
Pong(rows, cols, dx, dy) ==
    LET scr == [max_y |-> rows, max_x |-> cols]
        game_max_x == cols - 2
    IN  /\ screen = scr
        /\ collision_map = [max_y |-> rows, max_x |-> game_max_x,
                            map |-> create_collision_map(rows, game_max_x)]
        /\ left_paddle = Paddle(LeftPaddleX, scr)
        /\ right_paddle = Paddle(game_max_x - 2, scr)
        /\ ball = Ball(scr, dx, dy)
        /\ score = Score
        /\ pc = "handle_input"

Init ==
    /\ \E dx \in {-1, 1}, dy \in {-1, 1} : Pong(Rows, Cols, dx, dy)
    /\ entity = NoEntity
    /\ result = {}

key_paddle_move_crossed(key) ==
    LET direction == IF key \in {"w", "i"} THEN UP ELSE DOWN
    IN  \E r \in {Paddle_move(collision_map, IF key \in {"i", "k"} THEN left_paddle ELSE right_paddle,
                                direction)} :
        /\ collision_map' = r.cm
        /\ IF key \in {"i", "k"}
           THEN left_paddle' = r.paddle /\ UNCHANGED right_paddle
           ELSE right_paddle' = r.paddle /\ UNCHANGED left_paddle
        /\ pc' = IF r.raised THEN "error" ELSE "update"

\* one paddle key of key_map: the bound Paddle.move, then on to update
\* (Paddle.move returns None) or out of run with the ValueError
key_paddle_move(key) ==
    LET direction == IF key \in {"w", "i"} THEN UP ELSE DOWN
    IN  \E r \in {Paddle_move(collision_map, IF key \in {"w", "s"} THEN left_paddle ELSE right_paddle,
                                direction)} :
        /\ collision_map' = r.cm
        /\ IF key \in {"w", "s"}
           THEN left_paddle' = r.paddle /\ UNCHANGED right_paddle
           ELSE right_paddle' = r.paddle /\ UNCHANGED left_paddle
        /\ pc' = IF r.raised THEN "error" ELSE "update"

handle_input_quit_after_update(key) ==
    /\ pc = "handle_input"
    /\ IF key \in {"w", "s", "i", "k"}
       THEN key_paddle_move(key) /\ UNCHANGED <<ball, score>>
       ELSE IF key = "q"
       THEN \E rdx \in {-1, 1}, rdy \in {-1, 1} :
                LET r == Ball_move(collision_map, ball, score, screen, rdx, rdy)
                IN  /\ r.score.player_1_score <= MaxScore
                    /\ r.score.player_2_score <= MaxScore
                    /\ collision_map' = r.cm /\ ball' = r.ball /\ score' = r.score
                    /\ pc' = "quit"
                    /\ UNCHANGED <<left_paddle, right_paddle>>
       ELSE /\ pc' = "update"
            /\ UNCHANGED <<collision_map, left_paddle, right_paddle, ball, score>>
    /\ UNCHANGED <<screen, entity, result>>

\* Game.handle_input as the head of the loop of Pong.run
handle_input(key) ==
    /\ pc = "handle_input"
    /\ IF key \in {"w", "s", "i", "k"}
       THEN key_paddle_move(key)
       ELSE /\ pc' = IF key = "q" THEN "quit" ELSE "update"
            /\ UNCHANGED <<collision_map, left_paddle, right_paddle>>
    /\ UNCHANGED <<screen, ball, score, entity, result>>

\* Pong.update and the rest of the loop body of Pong.run (render and sleep
\* change nothing of the game)
update(rdx, rdy) ==
    /\ pc = "update"
    /\ \E r \in {Ball_move(collision_map, ball, score, screen, rdx, rdy)} :
           /\ r.score.player_1_score <= MaxScore
           /\ r.score.player_2_score <= MaxScore
           /\ collision_map' = r.cm
           /\ ball' = r.ball
           /\ score' = r.score
           /\ pc' = IF r.raised THEN "error" ELSE "handle_input"
    /\ UNCHANGED <<screen, left_paddle, right_paddle, entity, result>>

HandleInput == \E key \in Keys : handle_input(key)

Update == \E rdx \in {-1, 1}, rdy \in {-1, 1} : update(rdx, rdy)

Next == HandleInput \/ Update

Spec == Init /\ [][Next]_vars

\* ---- stand-alone queries of the collision map ----------------------------

\* a map of rows x cols with a column of PADDLE cells at x = a and one BALL cell
probe_map(rows, cols, a, b) ==
    [r \in 0..(rows - 1) |->
        [c \in 0..(cols - 1) |->
            IF r = b /\ c = (a + 2) % cols THEN BALL
            ELSE IF c = a /\ r # 0 THEN PADDLE
            ELSE EMPTY]]

InitQuery ==
    /\ \E a \in 0..(QCols - 1), b \in 0..(QRows - 1) :
            collision_map = [max_y |-> QRows, max_x |-> QCols,
                             map |-> probe_map(QRows, QCols, a, b)]
    /\ entity \in [new_x : (-1)..MaxProbe, new_y : (-1)..MaxProbe,
                   width : 1..MaxSize, height : 1..MaxSize]
    /\ result = {}
    /\ screen = [max_y |-> QRows, max_x |-> QCols + 2]
    /\ left_paddle = Paddle(LeftPaddleX, screen)
    /\ right_paddle = Paddle(QCols - 2, screen)
    /\ ball = Ball(screen, 1, 1)
    /\ score = Score
    /\ pc = "query"

\* one call of CollisionMap.check_collision on the drawn entity
Query ==
    /\ pc = "query"
    /\ result' = check_collision(collision_map, entity)
    /\ pc' = "queried"
    /\ UNCHANGED <<screen, collision_map, left_paddle, right_paddle, ball, score, entity>>

NextQuery == Query

QuerySpec == InitQuery /\ [][NextQuery]_vars

\* ---- properties -----------------------------------------------------------

Diagonals == {<<-1, -1>>, <<-1, 1>>, <<1, -1>>, <<1, 1>>}

PaddleKeys == {"w", "s", "i", "k"}

key_paddle(key) == IF key \in {"w", "s"} THEN left_paddle ELSE right_paddle

key_paddle_next(key) == IF key \in {"w", "s"} THEN left_paddle' ELSE right_paddle'

key_direction(key) == IF key \in {"w", "i"} THEN UP ELSE DOWN

\* what check_collision answers for the paddle of key moved one step
paddle_query(key) ==
    check_collision(collision_map,
                    [key_paddle(key) EXCEPT !.new_y = key_paddle(key).y + key_direction(key)])

\* what check_collision answers for the ball moved one step
ball_query ==
    check_collision(collision_map,
                    [ball EXCEPT !.new_x = ball.x + ball.dx, !.new_y = ball.y + ball.dy])

map_cells == {<<r, c>> : r \in 0..(collision_map.max_y - 1), c \in 0..(collision_map.max_x - 1)}

at_midpoint(b) == b.x = screen.max_x \div 2 /\ b.y = screen.max_y \div 2

\* C1: between ticks the non-Empty cells of the map are exactly the committed
\* footprints of the two paddles and of the ball, each cell holding the kind
\* of an entity that occupies it.
C1_MapEntityConsistency ==
    pc = "handle_input" =>
        \A rc \in map_cells :
            LET m == collision_map.map[rc[1]][rc[2]]
                kinds == (IF rc = <<ball.y, ball.x>> THEN {BALL} ELSE {})
                         \cup (IF rc \in paddle_cells(left_paddle) \cup paddle_cells(right_paddle)
                               THEN {PADDLE} ELSE {})
            IN  IF kinds = {} THEN m = EMPTY ELSE m \in kinds

\* C2: neither Paddle.move nor Ball.move ever reaches its 'Unexpected
\* collision' branch, whatever the keys and however many ticks.
C2_NoUnexpectedCollision == pc # "error"

\* C3: a ball whose tentative cell lies in the committed footprint of a paddle
\* inverts dx, keeps dy and its position and commits nothing; the ball's
\* committed cell is never a cell of a paddle's committed footprint.
C3_BallBouncesOffPaddles ==
    /\ [][(pc = "update" /\ <<ball.y + ball.dy, ball.x + ball.dx>>
                                \in paddle_cells(left_paddle) \cup paddle_cells(right_paddle))
            => /\ ball'.dx = -ball.dx
               /\ ball'.dy = ball.dy
               /\ ball'.x = ball.x /\ ball'.y = ball.y
               /\ collision_map' = collision_map]_vars
    /\ [](<<ball.y, ball.x>> \notin paddle_cells(left_paddle) \cup paddle_cells(right_paddle))

\* C4: a ball move answered {LeftWall} adds 1 to the right-side counter
\* (player_2_score) only and resets the ball, one answered {RightWall} adds 1
\* to the left-side counter (player_1_score) only and resets the ball, any
\* other move leaves both counters unchanged.
C4_ScoringSides ==
    [][pc = "update" =>
        IF ball_query = {LEFT_WALL}
        THEN /\ score'.player_2_score = score.player_2_score + 1
             /\ score'.player_1_score = score.player_1_score
             /\ at_midpoint(ball')
        ELSE IF ball_query = {RIGHT_WALL}
        THEN /\ score'.player_1_score = score.player_1_score + 1
             /\ score'.player_2_score = score.player_2_score
             /\ at_midpoint(ball')
        ELSE score' = score]_vars

\* C5: a paddle move answered {Empty}, {Empty, Paddle} or {Ball, Paddle} is
\* accepted: the paddle's y becomes y + direction and the map holds Paddle on
\* the new footprint.
C5_PaddleAcceptance ==
    [][\A key \in PaddleKeys :
        (handle_input(key) /\ paddle_query(key) \in {{EMPTY}, {EMPTY, PADDLE}, {BALL, PADDLE}})
        => /\ key_paddle_next(key).y = key_paddle(key).y + key_direction(key)
           /\ \A rc \in paddle_cells(key_paddle_next(key)) :
                    collision_map'.map[rc[1]][rc[2]] = PADDLE
           /\ pc' = "update"]_vars

\* a paddle's y is inside the rows the boundary tests leave to it
paddle_in_range(p) == 1 <= p.y /\ p.y <= collision_map.max_y - p.height - 1

\* C6: a paddle move whose tentative y is < 1 or >= map height - paddle
\* height changes neither the paddle's x and y nor the map, the ball or the
\* score, and raises nothing; each paddle's y stays in
\* [1, height - paddle_height - 1].
C6_PaddleClamping ==
    /\ [][\A key \in PaddleKeys :
            (handle_input(key)
             /\ (key_paddle(key).y + key_direction(key) < 1
                 \/ key_paddle(key).y + key_direction(key)
                        >= collision_map.max_y - key_paddle(key).height))
            => /\ key_paddle_next(key).x = key_paddle(key).x
               /\ key_paddle_next(key).y = key_paddle(key).y
               /\ collision_map' = collision_map
               /\ ball' = ball
               /\ score' = score
               /\ pc' = "update"]_vars
    /\ [](paddle_in_range(left_paddle) /\ paddle_in_range(right_paddle))

\* a move request of the right paddle was turned down at the bottom boundary
\* and one of the left paddle at the top boundary
C6_Witness ==
    /\ pc = "update"
    /\ right_paddle.new_y >= collision_map.max_y - right_paddle.height
    /\ right_paddle.y = right_paddle.new_y - 1
    /\ left_paddle.new_y = 0
    /\ left_paddle.y = 1

\* C7: check_collision answers exactly one wall marker when the tentative
\* position is out of range, the first that matches in the order left, right,
\* top, bottom, and otherwise the union of the markers of every cell of the
\* footprint rectangle, all of which are cells of the map.
C7_QueryBoundaryPrecedence ==
    pc = "queried" =>
        LET left == entity.new_x < 1
            right == entity.new_x >= collision_map.max_x + 1 - entity.width
            top == entity.new_y < 1
            bottom == entity.new_y >= collision_map.max_y - entity.height
            rectangle == {<<r, c>> : r \in entity.new_y..(entity.new_y + entity.height - 1),
                                     c \in entity.new_x..(entity.new_x + entity.width - 1)}
        IN  /\ left => result = {LEFT_WALL}
            /\ (~left /\ right) => result = {RIGHT_WALL}
            /\ (~left /\ ~right /\ top) => result = {TOP_WALL}
            /\ (~left /\ ~right /\ ~top /\ bottom) => result = {BOTTOM_WALL}
            /\ (~left /\ ~right /\ ~top /\ ~bottom)
                => /\ rectangle \subseteq map_cells
                   /\ result = {collision_map.map[rc[1]][rc[2]] : rc \in rectangle}

\* a query out of range on two axes at once, and one that read the map and
\* found two kinds in a footprint of several cells
C7_Witness ==
    /\ pc = "queried"
    /\ entity.width > 1 /\ entity.height > 1
    /\ entity.new_x >= collision_map.max_x + 1 - entity.width
    /\ entity.new_y < 1
    /\ result = {RIGHT_WALL}

C7_WitnessUnion ==
    /\ pc = "queried"
    /\ entity.width > 1 /\ entity.height > 1
    /\ result = {EMPTY, PADDLE, BALL}

\* a paddle move from map and paddle p was accepted
accepted(r, p) == ~r.raised /\ r.paddle.y # p.y

\* an accepted move of p in direction d followed by an accepted move back
\* leaves the map as it was
round_trip(p, d) ==
    LET away == Paddle_move(collision_map, p, d)
        back == Paddle_move(away.cm, away.paddle, -d)
    IN  (accepted(away, p) /\ accepted(back, away.paddle)) => back.cm.map = collision_map.map

\* C8: after an accepted commit the cells of the previous footprint (those the
\* new footprint does not cover) are Empty, the cells of the new footprint
\* hold the entity's kind and the committed position is the tentative one; a
\* paddle moved away and back, from any state between ticks, restores the map.
C8_CommitRoundTrip ==
    /\ [][\A key \in PaddleKeys :
            (handle_input(key) /\ key_paddle_next(key).y # key_paddle(key).y)
            => /\ \A rc \in paddle_cells(key_paddle(key)) \ paddle_cells(key_paddle_next(key)) :
                    collision_map'.map[rc[1]][rc[2]] = EMPTY
               /\ \A rc \in paddle_cells(key_paddle_next(key)) :
                    collision_map'.map[rc[1]][rc[2]] = PADDLE
               /\ key_paddle_next(key).y = key_paddle_next(key).new_y]_vars
    /\ [][(pc = "update" /\ ball_query = {EMPTY})
            => /\ collision_map'.map[ball.y][ball.x] = EMPTY
               /\ collision_map'.map[ball'.y][ball'.x] = BALL
               /\ ball'.x = ball'.new_x /\ ball'.y = ball'.new_y]_vars
    /\ [](pc = "handle_input" =>
            \A d \in {UP, DOWN} : round_trip(left_paddle, d) /\ round_trip(right_paddle, d))

C10_ResetCommitted ==
    [][(pc = "update" /\ ball_query \in {{LEFT_WALL}, {RIGHT_WALL}})
        => /\ collision_map'.map[ball.y][ball.x] = EMPTY
           /\ collision_map'.map[ball'.y][ball'.x] = BALL]_vars

\* C11: both counters start at 0 and are never negative, neither is ever
\* decremented, and their sum changes by at most 1 in a step, and only in a
\* ball move that resets the ball.
C11_ScoreMonotonic ==
    /\ (score.player_1_score = 0 /\ score.player_2_score = 0)
    /\ [](score.player_1_score \in Nat /\ score.player_2_score \in Nat)
    /\ [][/\ score'.player_1_score >= score.player_1_score
          /\ score'.player_2_score >= score.player_2_score
          /\ (score'.player_1_score + score'.player_2_score)
                - (score.player_1_score + score.player_2_score) \in {0, 1}
          /\ (score' # score) =>
                (pc = "update" /\ ball_query \in {{LEFT_WALL}, {RIGHT_WALL}}
                 /\ at_midpoint(ball'))]_vars

\* a point has been scored and the loop is between two ticks
C11_Witness ==
    /\ pc = "handle_input"
    /\ score.player_1_score + score.player_2_score = 1
    /\ at_midpoint(ball)

\* C12: a tick that polls 'q' stops the loop before the simulation step: the
\* ball, the map, the paddles and the score are as the previous tick left
\* them, and nothing runs afterwards; every other key lets the loop go on, so
\* a run that has stopped has quit or has raised the collision error.
C12_QuitOrdering ==
    /\ [][pc' = "quit" =>
            (pc = "handle_input"
             /\ UNCHANGED <<collision_map, left_paddle, right_paddle, ball, score>>)]_vars
    /\ [][pc # "quit"]_vars
    /\ [](pc = "handle_input" => ENABLED (handle_input("q") /\ pc' = "quit"))
    /\ [][\A key \in Keys \ {"q"} : handle_input(key) => pc' \in {"update", "error"}]_vars
    /\ []((pc \notin {"quit", "error"}
           /\ (ball_query \in {{LEFT_WALL}, {RIGHT_WALL}} =>
                    (score.player_1_score < MaxScore /\ score.player_2_score < MaxScore)))
            => IF pc = "handle_input" THEN ENABLED handle_input("none")
                                       ELSE ENABLED update(1, 1))

\* the loop was left on 'q' after ticks that moved a paddle and scored
C12_Witness ==
    /\ pc = "quit"
    /\ score.player_1_score + score.player_2_score > 0
    /\ left_paddle.y # (screen.max_y - left_paddle.height) \div 2

\* the committed position and the direction of the ball
ball_committed(b) == <<b.x, b.y, b.dx, b.dy>>

\* C13: in the input phase 'w' and 's' request an Up and a Down move of the
\* left paddle and leave the right paddle alone, 'i' and 'k' do the same for
\* the right paddle, another key or no key changes nothing; the ball and the
\* score do not change in the input phase, and the ball moves only in the
\* update that follows it in the same tick.
C13_KeyDispatch ==
    /\ [][\A key \in Keys \ {"q"} :
            handle_input(key) =>
                /\ ball' = ball /\ score' = score
                /\ key = "w" => (left_paddle'.new_y = left_paddle.y - 1
                                 /\ left_paddle'.y \in {left_paddle.y, left_paddle.y - 1}
                                 /\ right_paddle' = right_paddle)
                /\ key = "s" => (left_paddle'.new_y = left_paddle.y + 1
                                 /\ left_paddle'.y \in {left_paddle.y, left_paddle.y + 1}
                                 /\ right_paddle' = right_paddle)
                /\ key = "i" => (right_paddle'.new_y = right_paddle.y - 1
                                 /\ right_paddle'.y \in {right_paddle.y, right_paddle.y - 1}
                                 /\ left_paddle' = left_paddle)
                /\ key = "k" => (right_paddle'.new_y = right_paddle.y + 1
                                 /\ right_paddle'.y \in {right_paddle.y, right_paddle.y + 1}
                                 /\ left_paddle' = left_paddle)
                /\ key \in {"other", "none"} =>
                        (UNCHANGED <<collision_map, left_paddle, right_paddle>>
                         /\ pc' = "update")]_vars
    /\ [][(left_paddle' # left_paddle \/ right_paddle' # right_paddle)
            => (pc = "handle_input" /\ pc' \in {"update", "error"})]_vars
    /\ [][ball' # ball => (pc = "update" /\ UNCHANGED <<left_paddle, right_paddle>>)]_vars

\* the left paddle was moved up by 'w' and the ball has not yet moved in
\* this tick
C13_Witness ==
    /\ pc = "update"
    /\ left_paddle.new_y = left_paddle.y
    /\ left_paddle.y = (screen.max_y - left_paddle.height) \div 2 - 1
    /\ right_paddle.y = (screen.max_y - right_paddle.height) \div 2
    /\ collision_map.map[left_paddle.y][left_paddle.x] = PADDLE
    /\ ball_committed(ball) = ball_committed(Ball(screen, ball.dx, ball.dy))

\* the answers Paddle.move handles and those Ball.move handles
paddle_cases == {{EMPTY, PADDLE}, {EMPTY}, {BOTTOM_WALL}, {TOP_WALL}}

ball_cases == {{EMPTY}, {BOTTOM_WALL}, {TOP_WALL}, {PADDLE}, {LEFT_WALL}, {RIGHT_WALL}}

\* C14: a paddle or ball move whose query result is outside its case list
\* raises the collision fault; the fault ends the run, nothing is retried or
\* run afterwards; the failed move leaves the mover's committed position, the
\* map and the score as they were.
C14_FatalError ==
    /\ [][\A key \in PaddleKeys :
            (handle_input(key) /\ paddle_query(key) \notin paddle_cases) => pc' = "error"]_vars
    /\ [][(pc = "update" /\ ball_query \notin ball_cases) => pc' = "error"]_vars
    /\ [][pc' = "error" =>
            /\ collision_map' = collision_map
            /\ score' = score
            /\ left_paddle'.x = left_paddle.x /\ left_paddle'.y = left_paddle.y
            /\ right_paddle'.x = right_paddle.x /\ right_paddle'.y = right_paddle.y
            /\ ball_committed(ball') = ball_committed(ball)
            /\ \/ pc = "update" /\ ball_query \notin ball_cases
               \/ pc = "handle_input"
                    /\ \E key \in PaddleKeys : paddle_query(key) \notin paddle_cases]_vars
    /\ [][pc # "error"]_vars

\* the run has ended on the fault of a paddle move that found the ball in its
\* tentative footprint
C14_Witness ==
    /\ pc = "error"
    /\ left_paddle.new_y # left_paddle.y
    /\ <<ball.y, ball.x>> \in {<<left_paddle.new_y + i, left_paddle.x>> : i \in 0..(left_paddle.height - 1)}
    /\ collision_map.map[ball.y][ball.x] = BALL

\* a paddle p as an autonomous paddle would stand after the simulation step
\* that left the ball at b: unmoved when the ball is further than a twelfth
\* of the board width from its column, else one step towards the ball's row
\* (as far as the rows of the board let it)
ai_paddle_y(p, b) ==
    LET distance == IF b.x >= p.x THEN b.x - p.x ELSE p.x - b.x
    IN  IF 12 * distance > collision_map.max_x THEN p.y
        ELSE IF 2 * p.y + p.height - 1 < 2 * b.y
                /\ p.y + 1 < collision_map.max_y - p.height THEN p.y + 1
        ELSE IF 2 * p.y + p.height - 1 > 2 * b.y /\ p.y - 1 >= 1 THEN p.y - 1
        ELSE p.y

\* C15: in the simulation step, after the ball has moved, a paddle run as an
\* autonomous paddle stays where it is when the ball is further than
\* board_width/12 from it and otherwise moves one step towards the ball's
\* committed row.
C15_AutonomousPaddle ==
    [][(pc = "update" /\ pc' = "handle_input")
        => /\ left_paddle'.y = ai_paddle_y(left_paddle, ball')
           /\ right_paddle'.y = ai_paddle_y(right_paddle, ball')]_vars

\* C16: a ball move answered {TopWall} or {BottomWall} inverts dy and nothing
\* else: dx, the ball's committed position, the map, the paddles and the score
\* are unchanged.
C16_BallWallBounce ==
    [][(pc = "update" /\ ball_query \in {{TOP_WALL}, {BOTTOM_WALL}})
        => /\ ball'.dy = -ball.dy
           /\ ball'.dx = ball.dx
           /\ ball'.x = ball.x /\ ball'.y = ball.y
           /\ collision_map' = collision_map
           /\ UNCHANGED <<left_paddle, right_paddle, score>>
           /\ pc' = "handle_input"]_vars

\* the ball has just been turned back by the bottom wall
C16_Witness ==
    /\ pc = "handle_input"
    /\ ball.new_y = collision_map.max_y - 1
    /\ ball.y = collision_map.max_y - 2
    /\ ball.new_x = ball.x + ball.dx
    /\ ball.dy = -1
    /\ collision_map.map[ball.y][ball.x] = BALL

\* C17: a ball move commits exactly when its query answers {Empty}; the ball
\* is then at (x + dx, y + dy) with the same direction, its old cell holds
\* Empty and its new cell Ball, and the score and the paddles are unchanged.
C17_BallFreeMove ==
    [][pc = "update" =>
        /\ (ball_query = {EMPTY})
            <=> (ball'.x = ball.x + ball.dx /\ ball'.y = ball.y + ball.dy)
        /\ (ball_query = {EMPTY})
            => /\ ball'.dx = ball.dx /\ ball'.dy = ball.dy
               /\ collision_map'.map[ball.y][ball.x] = EMPTY
               /\ collision_map'.map[ball'.y][ball'.x] = BALL
               /\ UNCHANGED <<left_paddle, right_paddle, score>>
               /\ pc' = "handle_input"]_vars

\* the ball has just made a free move down and to the right
C17_Witness ==
    /\ pc = "handle_input"
    /\ ball.new_x = ball.x /\ ball.new_y = ball.y
    /\ ball.dx = 1 /\ ball.dy = 1
    /\ ball.x = screen.max_x \div 2 + 1 /\ ball.y = screen.max_y \div 2 + 1
    /\ collision_map.map[ball.y][ball.x] = BALL
    /\ collision_map.map[ball.y - 1][ball.x - 1] = EMPTY

\* the cells of the column of paddle p that hold Paddle
paddle_marked(p) == {rc \in map_cells : rc[2] = p.x /\ collision_map.map[rc[1]][rc[2]] = PADDLE}

\* every non-Empty cell is the ball's cell holding Ball or a cell of a
\* paddle's footprint holding Paddle
no_orphans ==
    \A rc \in map_cells :
        LET m == collision_map.map[rc[1]][rc[2]]
        IN  m # EMPTY =>
                \/ m = BALL /\ rc = <<ball.y, ball.x>>
                \/ m = PADDLE /\ rc \in paddle_cells(left_paddle) \cup paddle_cells(right_paddle)

one_ball == Cardinality({rc \in map_cells : collision_map.map[rc[1]][rc[2]] = BALL}) <= 1

\* a paddle whose column holds Paddle cells (it has committed a move) holds
\* them on exactly its footprint
footprint_marked(p) == paddle_marked(p) # {} => paddle_marked(p) = paddle_cells(p)

\* the step keeps the marker of every entity it does not move: the Paddle
\* cells of a paddle that stays, the Ball cell of a ball that stays
markers_kept ==
    /\ \A p \in {left_paddle, right_paddle} :
            (p \in {left_paddle', right_paddle'}) =>
                \A rc \in paddle_cells(p) :
                    collision_map.map[rc[1]][rc[2]] = PADDLE
                        => collision_map'.map[rc[1]][rc[2]] = PADDLE
    /\ (ball'.x = ball.x /\ ball'.y = ball.y /\ collision_map.map[ball.y][ball.x] = BALL)
            => collision_map'.map[ball.y][ball.x] = BALL

\* C18: every non-Empty cell is the ball's committed cell holding Ball or a
\* cell of a paddle's committed footprint holding Paddle; there is at most one
\* Ball cell; once a paddle has committed a move the Paddle cells of its
\* column are exactly its footprint; no commit or reset erases or overwrites
\* the marker of another entity.
C18_NoOrphanedMarkers ==
    /\ [](no_orphans /\ one_ball)
    /\ [](footprint_marked(left_paddle) /\ footprint_marked(right_paddle))
    /\ [][markers_kept]_vars

\* the rectangle of cells a query of entity e reads when no boundary test
\* matches, and an accepted commit then writes
tentative_cells(e) ==
    {<<r, c>> : r \in e.new_y..(e.new_y + e.height - 1), c \in e.new_x..(e.new_x + e.width - 1)}

walls == {{LEFT_WALL}, {RIGHT_WALL}, {TOP_WALL}, {BOTTOM_WALL}}

\* the reads of check_collision for entity e moved to its tentative position
\* stay inside the map
reads_in_map(e) == check_collision(collision_map, e) \notin walls => tentative_cells(e) \subseteq map_cells

\* C19: the ball keeps 1 <= x <= width - 1 and 1 <= y <= height - 2 with dx
\* and dy in {-1, 1}; each paddle keeps its column and 1 <= y <= height -
\* paddle_height - 1; every cell that check_collision reads and that
\* update_map or a scoring branch writes is a cell of the map.
C19_PositionsInRange ==
    /\ 1 <= ball.x /\ ball.x <= collision_map.max_x - 1
    /\ 1 <= ball.y /\ ball.y <= collision_map.max_y - 2
    /\ ball.dx \in {-1, 1} /\ ball.dy \in {-1, 1}
    /\ left_paddle.x = 2 /\ right_paddle.x = collision_map.max_x - 2
    /\ paddle_in_range(left_paddle) /\ paddle_in_range(right_paddle)
    /\ <<ball.y, ball.x>> \in map_cells
    /\ paddle_cells(left_paddle) \cup paddle_cells(right_paddle) \subseteq map_cells
    /\ reads_in_map([ball EXCEPT !.new_x = ball.x + ball.dx, !.new_y = ball.y + ball.dy])
    /\ \A key \in PaddleKeys :
            reads_in_map([key_paddle(key) EXCEPT !.new_y = key_paddle(key).y + key_direction(key)])

\* the ball in the last column and the last row it can reach, the left
\* paddle on its lowest row and the right paddle on its highest
C19_Witness ==
    /\ pc = "handle_input"
    /\ ball.x = collision_map.max_x - 1
    /\ ball.y = collision_map.max_y - 2
    /\ left_paddle.y = collision_map.max_y - left_paddle.height - 1
    /\ right_paddle.y = 1
    /\ collision_map.map[ball.y][ball.x] = BALL

\* the keys after which the loop goes on to update
InputKeys == Keys \ {"q"}

\* the map and the paddles after the input phase of a tick that polled key:
\* [cm, left, right, raised]
after_input(cm, left, right, key) ==
    IF key \in {"w", "s"}
    THEN LET r == Paddle_move(cm, left, key_direction(key))
         IN  [cm |-> r.cm, left |-> r.paddle, right |-> right, raised |-> r.raised]
    ELSE IF key \in {"i", "k"}
    THEN LET r == Paddle_move(cm, right, key_direction(key))
         IN  [cm |-> r.cm, left |-> left, right |-> r.paddle, raised |-> r.raised]
    ELSE [cm |-> cm, left |-> left, right |-> right, raised |-> FALSE]

\* the ball move with outcome r left the ball b where it was: it neither
\* committed nor reset nor raised
ball_stays(r, b) == ~r.raised /\ r.ball.x = b.x /\ r.ball.y = b.y

\* the ball move of this tick
first_move == Ball_move(collision_map, ball, score, screen, 1, 1)

\* the ball move of the next tick, after its input phase i
later_move(i, r) == Ball_move(i.cm, r.ball, r.score, screen, 1, 1)

\* C20: whatever the paddles do in between, of three consecutive ball moves
\* that raise nothing at least one commits a new position or resets the
\* ball: a ball that stayed in place for two moves leaves it with the third.
C20_BallNotHeld ==
    (pc = "update" /\ ball_stays(first_move, ball)) =>
        \A k1 \in InputKeys :
            LET i1 == after_input(first_move.cm, left_paddle, right_paddle, k1)
                r2 == later_move(i1, first_move)
            IN  (~i1.raised /\ ball_stays(r2, first_move.ball)) =>
                    \A k2 \in InputKeys :
                        LET i2 == after_input(r2.cm, i1.left, i1.right, k2)
                            r3 == later_move(i2, r2)
                        IN  (~i2.raised /\ ~r3.raised) => ~ball_stays(r3, r2.ball)

\* the ball is about to stay in place for two moves in a row: a wall bounce
\* now and a paddle bounce in the next tick
C20_Witness ==
    /\ pc = "update"
    /\ ball_query \in {{TOP_WALL}, {BOTTOM_WALL}}
    /\ ball_stays(first_move, ball)
    /\ \E k1 \in InputKeys :
            LET i1 == after_input(first_move.cm, left_paddle, right_paddle, k1)
            IN  /\ ~i1.raised
                /\ ball_stays(later_move(i1, first_move), first_move.ball)

====
